---- MODULE Spec2Model ----
(***************************************************************************)
(* Model of the R2 -> BigQuery ingestion pipeline:                         *)
(*   ndjsonStream   (src/unnamed/part_000, the ./ndjsonstream module)      *)
(*   insertIntoBq, sendBatchToBigQuery, handleBigQueryResponse,            *)
(*   processR2Object and the queue handler                                 *)
(*                  (src/src/worker.ts lines 178-323, the per-row version) *)
(*   generateJWT    (src/src/worker.js lines 213-264, the ./jwt module)    *)
(*                                                                         *)
(* The object's decompressed text is a sequence of characters over a small *)
(* alphabet: the digit "1" (a JSON number is a run of digits), "x" (a      *)
(* character no JSON value contains), the blank " " and the line feed.     *)
(* The reader delivers the text in chunks cut at arbitrary places.         *)
(***************************************************************************)
EXTENDS Integers, Sequences, FiniteSets, TLC

\* ------------------------------------------------------------------ bounds
\* longest object text, in characters
MaxLen == 5
\* longest insertErrors list in a response body
MaxErrors == 2
\* largest row index a response body names (may lie outside the batch)
MaxIndex == 1
\* most messages in a batch of several messages
MaxMessages == 2
\* the size unit: the serialized bytes one character of a value stands for, so
\* that two characters make the 1 MiB threshold and three exceed it
BytesPerChar == 512 * 1024

\* ------------------------------------------------------------ text helpers
LF == "\n"
Chars == {"1", "x", " ", LF}

\* String.prototype.trim / the whitespace JSON.parse skips
IsSpace(c) == c = " " \/ c = LF

RECURSIVE TrimLeft(_)
TrimLeft(s) ==
    IF s # <<>> /\ IsSpace(Head(s)) THEN TrimLeft(Tail(s)) ELSE s

RECURSIVE TrimRight(_)
TrimRight(s) ==
    IF s # <<>> /\ IsSpace(s[Len(s)]) THEN TrimRight(SubSeq(s, 1, Len(s) - 1)) ELSE s

Trim(s) == TrimRight(TrimLeft(s))

\* buffer.split('\n'): the pieces between line feeds, always at least one
RECURSIVE Split(_)
Split(s) ==
    IF \A i \in 1..Len(s) : s[i] # LF
    THEN <<s>>
    ELSE LET p == CHOOSE i \in 1..Len(s) : s[i] = LF /\ \A j \in 1..(i - 1) : s[j] # LF
         IN  <<SubSeq(s, 1, p - 1)>> \o Split(SubSeq(s, p + 1, Len(s)))

\* JSON.parse on a line of this alphabet: blanks around one run of digits
DigitValue(c) == IF c = "1" THEN 1 ELSE 0

RECURSIVE DigitsToNumber(_)
DigitsToNumber(d) ==
    IF d = <<>> THEN 0
    ELSE 10 * DigitsToNumber(SubSeq(d, 1, Len(d) - 1)) + DigitValue(d[Len(d)])

JsonValid(line) ==
    LET t == Trim(line) IN t # <<>> /\ \A i \in 1..Len(t) : t[i] = "1"

JsonParse(line) == DigitsToNumber(Trim(line))

\* JSON.stringify(json).length, in bytes
RECURSIVE DecimalDigits(_)
DecimalDigits(n) == IF n < 10 THEN 1 ELSE 1 + DecimalDigits(n \div 10)

StringifyLength(json) == DecimalDigits(json) * BytesPerChar

\* ------------------------------------------------------------------- state
VARIABLES
    messages,          \* queue: batch.messages, each a key and what the bucket holds
    mi,                \* queue: position of the for loop over the messages
    hpc,               \* queue: "loop", "run" (in insertIntoBq), "thrown", "returned"
    acked,             \* the messages message.ack() was called on
    gets,              \* the messages r2Binding.get was called for, in order
    text,              \* the whole decompressed object
    rest,              \* the part of it the reader has not delivered yet
    emptyChunk,        \* the reader has delivered an empty chunk
    cutInLine,         \* a chunk ended inside a line whose rest came later
    buffer,            \* ndjsonStream: carry-over text
    lineNumber,        \* ndjsonStream: line counter
    lines,             \* ndjsonStream: lines of the current split not yet visited
    dpc,               \* ndjsonStream: "read" (in the while loop) or "done" (returned)
    emitted,           \* the items ndjsonStream has yielded
    batch,             \* insertIntoBq: accumulating batch
    batchSizeBytes,
    totalBytes,
    totalRecords,
    successfulInserts,
    failedInserts,
    skippedRecords,
    pending,           \* the record whose arrival triggered the POST in flight
    ipc,               \* insertIntoBq: "idle" (not called), "start", "pull", "send",
                       \*               "final", "done", "error"
    thrown,            \* what ended the run with an error
    jwt,               \* insertIntoBq: what generateJWT returned
    exchanges,         \* the requests made to the token endpoint in this run
    auths,             \* the Authorization header of each POST
    sent,              \* the batches POSTed so far
    responses,         \* the responses received so far
    outcomes,          \* what handleBigQueryResponse returned, batch by batch
    log                \* console.error: the first-error line of a batch

dvars == <<text, rest, emptyChunk, cutInLine, buffer, lineNumber, lines, dpc, emitted>>
ivars == <<batch, batchSizeBytes, totalBytes, totalRecords, successfulInserts,
           failedInserts, skippedRecords, pending, ipc, thrown, jwt, exchanges,
           auths, sent, responses, outcomes, log>>
hvars == <<messages, mi, hpc, acked, gets>>
vars == <<hvars, dvars, ivars>>

maxBatchSizeBytes == 1024 * 1024

NoItem == [none |-> TRUE]

RECURSIVE SeqsUpTo(_, _)
SeqsUpTo(S, n) ==
    IF n = 0 THEN {<<>>}
    ELSE LET shorter == SeqsUpTo(S, n - 1)
         IN  shorter \cup {Append(s, x) : s \in {t \in shorter : Len(t) = n - 1}, x \in S}

Texts == SeqsUpTo(Chars, MaxLen)

\* what r2Binding.get(key) gives: null, an object without body, or an object
\* whose body decompresses to a text
NotFound == [found |-> FALSE, body |-> FALSE, text |-> <<>>]
NullBody == [found |-> TRUE, body |-> FALSE, text |-> <<>>]
Stream(t) == [found |-> TRUE, body |-> TRUE, text |-> t]

\* object keys, as path pieces: one that starts with `__temporary` and one
\* that only contains it
TemporaryKey == <<"__temporary", "part-0.json.gz">>
DataKey == <<"event_date=2024-09-19", "__temporary">>

\* the object texts of the queue's messages: empty, one record, one malformed
\* line, two records that form two batches
QueueTexts == {<<>>, <<"1">>, <<"x">>, <<"1", "1", LF, "1">>}

\* the messages a batch may hold
QueueMessages ==
    {[key |-> TemporaryKey, object |-> Stream(<<"1">>)]}
        \cup {[key |-> DataKey, object |-> o] :
                 o \in {NotFound, NullBody} \cup {Stream(t) : t \in QueueTexts}}

\* batch.messages: up to MaxMessages messages
Batches == SeqsUpTo(QueueMessages, MaxMessages) \ {<<>>}

\* the locals of ndjsonStream and insertIntoBq as they are initialized, and
\* empty histories
FreshLoop ==
    /\ emptyChunk = FALSE
    /\ cutInLine = FALSE
    /\ buffer = <<>>
    /\ lineNumber = 0
    /\ lines = <<>>
    /\ dpc = "read"
    /\ emitted = <<>>
    /\ batch = <<>>
    /\ batchSizeBytes = 0
    /\ totalBytes = 0
    /\ totalRecords = 0
    /\ successfulInserts = 0
    /\ failedInserts = 0
    /\ skippedRecords = 0
    /\ pending = NoItem
    /\ auths = <<>>
    /\ sent = <<>>
    /\ responses = <<>>
    /\ outcomes = <<>>
    /\ log = <<>>

\* a new call of processR2Object and insertIntoBq: new locals, new histories
ResetRun ==
    /\ emptyChunk' = FALSE
    /\ cutInLine' = FALSE
    /\ buffer' = <<>>
    /\ lineNumber' = 0
    /\ lines' = <<>>
    /\ dpc' = "read"
    /\ emitted' = <<>>
    /\ batch' = <<>>
    /\ batchSizeBytes' = 0
    /\ totalBytes' = 0
    /\ totalRecords' = 0
    /\ successfulInserts' = 0
    /\ failedInserts' = 0
    /\ skippedRecords' = 0
    /\ pending' = NoItem
    /\ jwt' = "none"
    /\ exchanges' = 0
    /\ auths' = <<>>
    /\ sent' = <<>>
    /\ responses' = <<>>
    /\ outcomes' = <<>>
    /\ log' = <<>>

\* the run of one message, any object text, from the point where insertIntoBq
\* has its access token and enters the for-await loop
Init ==
    /\ messages \in {<<[key |-> DataKey, object |-> Stream(t)]>> : t \in Texts}
    /\ mi = 1
    /\ hpc = "run"
    /\ acked = {}
    /\ gets = <<1>>
    /\ text = messages[1].object.text
    /\ rest = text
    /\ ipc = "pull"
    /\ thrown = "none"
    /\ jwt = "access_token"
    /\ exchanges = 1
    /\ FreshLoop

\* the queue handler is invoked with a batch of messages
QueueInit ==
    /\ messages \in Batches
    /\ mi = 1
    /\ hpc = "loop"
    /\ acked = {}
    /\ gets = <<>>
    /\ text = <<>>
    /\ rest = <<>>
    /\ ipc = "idle"
    /\ thrown = "none"
    /\ jwt = "none"
    /\ exchanges = 0
    /\ FreshLoop

\* ----------------------------------------------------------- queue handler
\* a variant that compares the whole key with the prefix
EqualsTemporary(key) == key = <<"__temporary">>

\* event.object.key.startsWith('__temporary')
StartsWithTemporary(key) == key[1] = "__temporary"

\* a variant without the check of the body: a null body is read as a stream
ProcessR2ObjectUnchecked(object) ==
    IF ~object.found THEN "Object not found" ELSE "stream"

\* processR2Object: the error it throws, or "stream" when it returns the
\* decoder over the decompressed body
ProcessR2Object(object) ==
    IF ~object.found THEN "Object not found"
    ELSE IF ~object.body THEN "Object body is null"
    ELSE "stream"

\* a variant that acknowledges however insertIntoBq ended
AcksAlways(result) ==
    IF result \in {"done", "error"} THEN acked \cup {mi} ELSE acked

\* message.ack() follows insertIntoBq only when it returned
Acks(result) == IF result = "done" THEN acked \cup {mi} ELSE acked

\* what the handler does once insertIntoBq has settled: ack and go on to the
\* next message, or log and rethrow
Settle ==
    /\ hpc' = IF ipc' = "error" THEN "thrown"
              ELSE IF ipc' = "done" THEN "loop" ELSE hpc
    /\ acked' = Acks(ipc')
    /\ mi' = IF ipc' = "done" THEN mi + 1 ELSE mi
    /\ UNCHANGED <<messages, gets>>

\* a key with the temporary prefix: continue
SkipTemporary ==
    /\ hpc = "loop" /\ mi <= Len(messages)
    /\ StartsWithTemporary(messages[mi].key)
    /\ mi' = mi + 1
    /\ UNCHANGED <<messages, hpc, acked, gets, dvars, ivars>>

\* processR2Object throws: the catch block logs and rethrows
ObjectMissing ==
    /\ hpc = "loop" /\ mi <= Len(messages)
    /\ ~StartsWithTemporary(messages[mi].key)
    /\ ProcessR2Object(messages[mi].object) # "stream"
    /\ gets' = Append(gets, mi)
    /\ thrown' = ProcessR2Object(messages[mi].object)
    /\ hpc' = "thrown"
    /\ text' = <<>> /\ rest' = <<>> /\ ipc' = "idle"
    /\ ResetRun
    /\ UNCHANGED <<messages, mi, acked>>

\* processR2Object returns the decoder and insertIntoBq is called with it
BeginRun ==
    /\ hpc = "loop" /\ mi <= Len(messages)
    /\ ~StartsWithTemporary(messages[mi].key)
    /\ ProcessR2Object(messages[mi].object) = "stream"
    /\ gets' = Append(gets, mi)
    /\ hpc' = "run"
    /\ text' = messages[mi].object.text
    /\ rest' = messages[mi].object.text
    /\ ipc' = "start"
    /\ thrown' = "none"
    /\ ResetRun
    /\ UNCHANGED <<messages, mi, acked>>

\* the for loop is over
Return ==
    /\ hpc = "loop" /\ mi > Len(messages)
    /\ hpc' = "returned"
    /\ UNCHANGED <<messages, mi, acked, gets, dvars, ivars>>

\* ------------------------------------------------------------- generateJWT
\* what the token endpoint answers: a JSON body with or without access_token
\* (an OAuth error body has none), or nothing that parses as JSON
TokenResponses ==
    {[json |-> TRUE, access_token |-> TRUE],
     [json |-> TRUE, access_token |-> FALSE],
     [json |-> FALSE, access_token |-> FALSE]}

\* generateJWT: tokenResponse.json() may throw; tokenData.access_token is
\* returned as it is, undefined included
GenerateJWT(tokenResponse) ==
    IF ~tokenResponse.json THEN [threw |-> TRUE, value |-> "none"]
    ELSE [threw |-> FALSE,
          value |-> IF tokenResponse.access_token THEN "access_token" ELSE "undefined"]

\* `const jwt = await generateJWT(token)` at the start of insertIntoBq
Exchange ==
    /\ hpc = "run" /\ ipc = "start"
    /\ exchanges' = exchanges + 1
    /\ \E tokenResponse \in TokenResponses :
          LET g == GenerateJWT(tokenResponse)
          IN  IF g.threw
              THEN /\ ipc' = "error" /\ thrown' = "token exchange"
                   /\ UNCHANGED jwt
              ELSE /\ ipc' = "pull" /\ jwt' = g.value
                   /\ UNCHANGED thrown
    /\ Settle
    /\ UNCHANGED <<dvars, batch, batchSizeBytes, totalBytes, totalRecords,
                   successfulInserts, failedInserts, skippedRecords, pending,
                   auths, sent, responses, outcomes, log>>

\* ------------------------------------------------------------ ndjsonStream
\* what the generator yields for a non-blank line: a StreamItem or an ErrorItem
Item(line, n) ==
    IF JsonValid(line)
    THEN [json |-> JsonParse(line),
          bytes |-> StringifyLength(JsonParse(line)),
          lineNumber |-> n]
    ELSE [error |-> TRUE, line |-> line, lineNumber |-> n,
          errorMessage |-> "SyntaxError"]

\* a variant that drops the blank lines before they are counted
CompleteNonBlank(pieces) ==
    SelectSeq(SubSeq(pieces, 1, Len(pieces) - 1), LAMBDA l : Trim(l) # <<>>)

\* a variant in which a malformed line ends the iteration (the parse error
\* escapes the loop)
RECURSIVE UntilMalformed(_)
UntilMalformed(ls) ==
    IF ls = <<>> THEN <<>>
    ELSE IF Trim(Head(ls)) # <<>> /\ ~JsonValid(Head(ls)) THEN <<>>
    ELSE <<Head(ls)>> \o UntilMalformed(Tail(ls))

CompleteUntilMalformed(pieces) ==
    UntilMalformed(SubSeq(pieces, 1, Len(pieces) - 1))

\* lines of the split that the for loop visits: all but the last piece
Complete(pieces) == SubSeq(pieces, 1, Len(pieces) - 1)

\* a variant that forgets the incomplete last fragment
CarryOverLost(pieces) == <<>>

\* lines.pop() || ''
CarryOver(pieces) == pieces[Len(pieces)]

\* ------------------------------------------------------------ insertIntoBq
\* a variant that closes the batch as soon as the threshold is reached
OverflowsAtThreshold(size) ==
    batchSizeBytes + size >= maxBatchSizeBytes /\ batch # <<>>

\* a variant that looks at the batch's size without the incoming record
OverflowsAfterwards(size) == batchSizeBytes > maxBatchSizeBytes /\ batch # <<>>

\* a variant that also flushes a batch that holds nothing yet
OverflowsEmptyBatch(size) == batchSizeBytes + size > maxBatchSizeBytes

\* the flush condition of the for-await loop body
Overflows(size) == batchSizeBytes + size > maxBatchSizeBytes /\ batch # <<>>

BatchItem(item) == [json |-> item.json, lineNumber |-> item.lineNumber]

\* a variant that sends the service account's key material (env.BQTOKEN)
\* instead of the access token
AuthorizationServiceToken(token) == <<"Bearer", "BQTOKEN">>

\* sendBatchToBigQuery: the Authorization header of the POST
Authorization(token) == <<"Bearer", token>>

RecordSizeBytes(item) == StringifyLength(item.json)

\* a variant that does not await the POST: the loop goes on at once
LoopBodyNoAwait(item) ==
    IF "error" \in DOMAIN item
    THEN /\ skippedRecords' = skippedRecords + 1
         /\ UNCHANGED <<batch, batchSizeBytes, totalBytes, totalRecords,
                        successfulInserts, failedInserts, pending, ipc, thrown,
                        auths, sent, responses, outcomes, log>>
    ELSE /\ totalBytes' = totalBytes + item.bytes
         /\ totalRecords' = totalRecords + 1
         /\ IF Overflows(RecordSizeBytes(item))
            THEN /\ sent' = Append(sent, batch)
                 /\ auths' = Append(auths, Authorization(jwt))
                 /\ batch' = <<BatchItem(item)>>
                 /\ batchSizeBytes' = RecordSizeBytes(item)
            ELSE /\ batch' = Append(batch, BatchItem(item))
                 /\ batchSizeBytes' = batchSizeBytes + RecordSizeBytes(item)
                 /\ UNCHANGED <<auths, sent>>
         /\ UNCHANGED <<successfulInserts, failedInserts, skippedRecords, thrown,
                        pending, ipc, responses, outcomes, log>>

\* the loop body of insertIntoBq for one yielded item
LoopBody(item) ==
    IF "error" \in DOMAIN item
    THEN /\ skippedRecords' = skippedRecords + 1
         /\ UNCHANGED <<batch, batchSizeBytes, totalBytes, totalRecords,
                        successfulInserts, failedInserts, pending, ipc, thrown,
                        auths, sent, responses, outcomes, log>>
    ELSE /\ totalBytes' = totalBytes + item.bytes
         /\ totalRecords' = totalRecords + 1
         /\ IF Overflows(RecordSizeBytes(item))
            THEN /\ sent' = Append(sent, batch)
                 /\ auths' = Append(auths, Authorization(jwt))
                 /\ pending' = item
                 /\ ipc' = "send"
                 /\ UNCHANGED <<batch, batchSizeBytes>>
            ELSE /\ batch' = Append(batch, BatchItem(item))
                 /\ batchSizeBytes' = batchSizeBytes + RecordSizeBytes(item)
                 /\ UNCHANGED <<auths, sent, pending, ipc>>
         /\ UNCHANGED <<successfulInserts, failedInserts, skippedRecords, thrown,
                        responses, outcomes, log>>

Yield(item) ==
    /\ emitted' = Append(emitted, item)
    /\ LoopBody(item)
    /\ UNCHANGED <<jwt, exchanges>>

\* reader.read() delivers the next n characters (n = 0: an empty chunk)
ReadChunk ==
    /\ ipc = "pull" /\ dpc = "read" /\ lines = <<>>
    /\ \E n \in 0..Len(rest) :
          /\ LET chunk == SubSeq(rest, 1, n)
                 pieces == Split(buffer \o chunk)
             IN  /\ emptyChunk' = (emptyChunk \/ n = 0)
                 /\ rest' = SubSeq(rest, n + 1, Len(rest))
                 /\ lines' = Complete(pieces)
                 /\ buffer' = CarryOver(pieces)
                 /\ cutInLine' = (cutInLine \/ (n > 0 /\ n < Len(rest)
                                                /\ chunk[n] # LF /\ rest[n + 1] # LF))
    /\ UNCHANGED <<text, lineNumber, dpc, emitted, ivars, hvars>>

\* one turn of `for (const line of lines)`
NextLine ==
    /\ ipc = "pull" /\ dpc = "read" /\ lines # <<>>
    /\ lineNumber' = lineNumber + 1
    /\ lines' = Tail(lines)
    /\ IF Trim(Head(lines)) # <<>>
       THEN Yield(Item(Head(lines), lineNumber + 1))
       ELSE UNCHANGED <<emitted, ivars>>
    /\ UNCHANGED <<text, rest, emptyChunk, cutInLine, buffer, dpc, hvars>>

\* a variant that returns at the end of the stream without looking at the
\* carry-over buffer
EndOfInputDropsTail ==
    /\ ipc = "pull" /\ dpc = "read" /\ lines = <<>> /\ rest = <<>>
    /\ dpc' = "done"
    /\ UNCHANGED <<text, rest, emptyChunk, cutInLine, buffer, lineNumber, lines,
                   emitted, ivars, hvars>>

\* reader.read() reports done: the carry-over buffer is the last line
EndOfInput ==
    /\ ipc = "pull" /\ dpc = "read" /\ lines = <<>> /\ rest = <<>>
    /\ dpc' = "done"
    /\ IF Trim(buffer) # <<>>
       THEN /\ lineNumber' = lineNumber + 1
            /\ Yield(Item(buffer, lineNumber + 1))
       ELSE UNCHANGED <<lineNumber, emitted, ivars>>
    /\ UNCHANGED <<text, rest, emptyChunk, cutInLine, buffer, lines, hvars>>

\* ------------------------------------------------- destination's responses
ErrorLists == SeqsUpTo({[index |-> i] : i \in 0..MaxIndex}, MaxErrors)

Responses ==
    {[ok |-> FALSE, insertErrors |-> <<>>]}
        \cup {[ok |-> TRUE, insertErrors |-> e] : e \in ErrorLists}

\* a variant that reports the first row of the batch, whatever the index
HandleBigQueryResponseFirstRow(response, b) ==
    LET failedCount == Len(response.insertErrors)
        firstIndex == response.insertErrors[1].index
    IN  IF failedCount > 0 /\ firstIndex >= Len(b)
        THEN [threw |-> TRUE, logged |-> <<>>,
              batchSuccessful |-> 0, batchFailed |-> 0]
        ELSE [threw |-> FALSE,
              logged |-> IF failedCount > 0 THEN <<b[1].lineNumber>> ELSE <<>>,
              batchSuccessful |-> Len(b) - failedCount, batchFailed |-> failedCount]

\* a variant that counts a batch with any row error as failed altogether
HandleBigQueryResponseAllOrNothing(response, b) ==
    LET failedCount == Len(response.insertErrors)
        firstIndex == response.insertErrors[1].index
    IN  IF failedCount > 0 /\ firstIndex >= Len(b)
        THEN [threw |-> TRUE, logged |-> <<>>,
              batchSuccessful |-> 0, batchFailed |-> 0]
        ELSE [threw |-> FALSE,
              logged |-> IF failedCount > 0 THEN <<b[firstIndex + 1].lineNumber>>
                         ELSE <<>>,
              batchSuccessful |-> IF failedCount > 0 THEN 0 ELSE Len(b),
              batchFailed |-> IF failedCount > 0 THEN Len(b) ELSE 0]

\* a variant that counts every row of the batch as inserted
HandleBigQueryResponseCountsAll(response, b) ==
    LET failedCount == Len(response.insertErrors)
        firstIndex == response.insertErrors[1].index
    IN  IF failedCount > 0 /\ firstIndex >= Len(b)
        THEN [threw |-> TRUE, logged |-> <<>>,
              batchSuccessful |-> 0, batchFailed |-> 0]
        ELSE [threw |-> FALSE,
              logged |-> IF failedCount > 0 THEN <<b[firstIndex + 1].lineNumber>>
                         ELSE <<>>,
              batchSuccessful |-> Len(b), batchFailed |-> failedCount]

\* handleBigQueryResponse: the counts it returns, the line it logs, or the
\* TypeError of batch[firstError.index].lineNumber on a missing element
HandleBigQueryResponse(response, b) ==
    LET failedCount == Len(response.insertErrors)
        successCount == Len(b) - failedCount
        firstIndex == response.insertErrors[1].index
    IN  IF failedCount > 0 /\ firstIndex >= Len(b)
        THEN [threw |-> TRUE, logged |-> <<>>,
              batchSuccessful |-> 0, batchFailed |-> 0]
        ELSE [threw |-> FALSE,
              logged |-> IF failedCount > 0 THEN <<b[firstIndex + 1].lineNumber>>
                         ELSE <<>>,
              batchSuccessful |-> successCount, batchFailed |-> failedCount]

\* the console.error lines of the batch just answered
Logged(h) ==
    [i \in 1..Len(h.logged) |-> [batch |-> Len(sent), lineNumber |-> h.logged[i]]]

Outcome(h) == [batchSuccessful |-> h.batchSuccessful, batchFailed |-> h.batchFailed]

\* a variant that completes normally although rows have failed
SummaryAlwaysDone(failed) == "done"

\* the summary line and the final throw of insertIntoBq
Summary(failed) == IF failed > 0 THEN "error" ELSE "done"

\* the response to a POST made inside the loop
Response ==
    /\ ipc = "send"
    /\ \E r \in Responses :
          /\ responses' = Append(responses, r)
          /\ IF ~r.ok
             THEN /\ ipc' = "error" /\ thrown' = "BigQuery API error"
                  /\ UNCHANGED <<batch, batchSizeBytes, successfulInserts,
                                 failedInserts, pending, outcomes, log>>
             ELSE LET h == HandleBigQueryResponse(r, batch)
                  IN  IF h.threw
                      THEN /\ ipc' = "error" /\ thrown' = "TypeError"
                           /\ UNCHANGED <<batch, batchSizeBytes, successfulInserts,
                                          failedInserts, pending, outcomes, log>>
                      ELSE /\ log' = log \o Logged(h)
                           /\ outcomes' = Append(outcomes, Outcome(h))
                           /\ successfulInserts' = successfulInserts + h.batchSuccessful
                           /\ failedInserts' = failedInserts + h.batchFailed
                           /\ batch' = <<BatchItem(pending)>>
                           /\ batchSizeBytes' = RecordSizeBytes(pending)
                           /\ pending' = NoItem
                           /\ ipc' = "pull"
                           /\ UNCHANGED thrown
    /\ Settle
    /\ UNCHANGED <<dvars, totalBytes, totalRecords, skippedRecords, jwt, exchanges,
                   auths, sent>>

\* the sequence is exhausted: flush what is left, or finish
Finish ==
    /\ ipc = "pull" /\ dpc = "done"
    /\ IF batch # <<>>
       THEN /\ sent' = Append(sent, batch)
            /\ auths' = Append(auths, Authorization(jwt))
            /\ ipc' = "final"
            /\ UNCHANGED thrown
       ELSE /\ ipc' = Summary(failedInserts)
            /\ thrown' = IF failedInserts > 0 THEN "Failed to insert" ELSE thrown
            /\ UNCHANGED <<sent, auths>>
    /\ Settle
    /\ UNCHANGED <<dvars, batch, batchSizeBytes, totalBytes, totalRecords,
                   successfulInserts, failedInserts, skippedRecords, pending,
                   jwt, exchanges, responses, outcomes, log>>

\* the response to the POST made after the loop
FinalResponse ==
    /\ ipc = "final"
    /\ \E r \in Responses :
          /\ responses' = Append(responses, r)
          /\ IF ~r.ok
             THEN /\ ipc' = "error" /\ thrown' = "BigQuery API error"
                  /\ UNCHANGED <<successfulInserts, failedInserts, outcomes, log>>
             ELSE LET h == HandleBigQueryResponse(r, batch)
                  IN  IF h.threw
                      THEN /\ ipc' = "error" /\ thrown' = "TypeError"
                           /\ UNCHANGED <<successfulInserts, failedInserts, outcomes, log>>
                      ELSE /\ log' = log \o Logged(h)
                           /\ outcomes' = Append(outcomes, Outcome(h))
                           /\ successfulInserts' = successfulInserts + h.batchSuccessful
                           /\ failedInserts' = failedInserts + h.batchFailed
                           /\ ipc' = Summary(failedInserts + h.batchFailed)
                           /\ thrown' = IF failedInserts + h.batchFailed > 0
                                        THEN "Failed to insert" ELSE thrown
    /\ Settle
    /\ UNCHANGED <<dvars, batch, batchSizeBytes, totalBytes, totalRecords,
                   skippedRecords, pending, jwt, exchanges, auths, sent>>

\* the steps of ndjsonStream and of insertIntoBq's loop
Next == ReadChunk \/ NextLine \/ EndOfInput \/ Response \/ Finish \/ FinalResponse

Spec == Init /\ [][Next]_vars

\* the steps of the queue handler, the runs of its messages included
QueueNext ==
    \/ SkipTemporary \/ ObjectMissing \/ BeginRun \/ Return \/ Exchange
    \/ ReadChunk \/ NextLine \/ EndOfInput \/ Response \/ Finish \/ FinalResponse

QueueSpec == QueueInit /\ [][QueueNext]_vars

\* the runtime resumes a handler whose awaited promise has settled: the
\* reader delivers a chunk or the end of the stream, every request is
\* answered
FairQueueSpec == QueueSpec /\ WF_vars(QueueNext)

\* ============================================================== properties
\* The lines of the whole object, numbered from 1, blank ones included.
SourceLines == Split(text)

NonBlankAt(k) == Trim(SourceLines[k]) # <<>>

ValidAt(k) == JsonValid(SourceLines[k])

\* the numbers of the non-blank lines, and of the lines that hold a JSON value
NonBlankLines ==
    LET ls == SourceLines
    IN  SelectSeq([k \in 1..Len(ls) |-> k], LAMBDA k : Trim(ls[k]) # <<>>)

RecordLines ==
    LET ls == SourceLines
    IN  SelectSeq([k \in 1..Len(ls) |-> k], LAMBDA k : JsonValid(ls[k]))

IsRecord(item) == "error" \notin DOMAIN item

RECURSIVE Flatten(_)
Flatten(ss) == IF ss = <<>> THEN <<>> ELSE Head(ss) \o Flatten(Tail(ss))

\* how many records the batches before the j-th hold
Offset(j) == Len(Flatten(SubSeq(sent, 1, j - 1)))

RECURSIVE BatchBytes(_)
BatchBytes(b) ==
    IF b = <<>> THEN 0 ELSE StringifyLength(Head(b).json) + BatchBytes(Tail(b))

\* the first listed index of the j-th response names a row of the j-th batch
FirstIndexInBatch(j) ==
    /\ responses[j].insertErrors # <<>>
    /\ responses[j].insertErrors[1].index < Len(sent[j])

\* every index the responses list names a row of its batch
WellFormedResponses ==
    \A j \in 1..Len(responses) :
        \A i \in 1..Len(responses[j].insertErrors) :
            responses[j].insertErrors[i].index < Len(sent[j])

\* C1: for every batch answered with a success status whose body lists
\* insertErrors, the line number logged for the first error is the 1-based
\* line, in the source object, of the record at position insertErrors[0].index
\* of that batch, whatever blank lines, malformed lines and earlier batches
\* precede it; and such a line is logged for every such batch.
C1_FirstErrorLine ==
    /\ LET recordLines == RecordLines
       IN  \A i \in 1..Len(log) :
              LET j == log[i].batch
              IN  /\ j \in 1..Len(responses)
                  /\ responses[j].ok
                  /\ FirstIndexInBatch(j)
                  /\ log[i].lineNumber =
                        recordLines[Offset(j) + responses[j].insertErrors[1].index + 1]
    /\ \A j \in 1..Len(responses) :
          (responses[j].ok /\ FirstIndexInBatch(j))
              => Cardinality({i \in 1..Len(log) : log[i].batch = j}) = 1

\* a second batch, in an object that starts with a blank line, whose first
\* error is logged at line 3
C1_Witness ==
    /\ ~NonBlankAt(1)
    /\ \E i \in 1..Len(log) : log[i].batch = 2 /\ log[i].lineNumber = 3

RECURSIVE SumSuccessful(_)
SumSuccessful(os) ==
    IF os = <<>> THEN 0 ELSE Head(os).batchSuccessful + SumSuccessful(Tail(os))

RECURSIVE SumFailed(_)
SumFailed(os) ==
    IF os = <<>> THEN 0 ELSE Head(os).batchFailed + SumFailed(Tail(os))

\* C2: for a batch answered with a success status, the outcome is
\* failed = number of entries of insertErrors and succeeded = batch length
\* minus that number, and the run's counters are the sums of these outcomes;
\* every success response whose first index names a row of the batch (or
\* that lists no error) gets such an outcome.
C2_PerRowOutcome ==
    /\ Len(outcomes) <= Len(responses)
    /\ \A j \in 1..Len(outcomes) :
          /\ responses[j].ok
          /\ outcomes[j].batchFailed = Len(responses[j].insertErrors)
          /\ outcomes[j].batchSuccessful =
                Len(sent[j]) - Len(responses[j].insertErrors)
    /\ \A j \in 1..Len(responses) :
          (responses[j].ok /\ (responses[j].insertErrors = <<>> \/ FirstIndexInBatch(j)))
              => j <= Len(outcomes)
    /\ successfulInserts = SumSuccessful(outcomes)
    /\ failedInserts = SumFailed(outcomes)

\* a batch of two rows of which one failed and one succeeded
C2_Witness ==
    \E j \in 1..Len(outcomes) :
        /\ Len(sent[j]) = 2
        /\ outcomes[j].batchFailed = 1
        /\ outcomes[j].batchSuccessful = 1

\* the sizes of the records the object holds, in source order
RecordSizes ==
    LET ls == SourceLines
        recordLines == RecordLines
    IN  [i \in 1..Len(recordLines) |-> StringifyLength(JsonParse(ls[recordLines[i]]))]

\* how many batches greedy batching forms from a sequence of record sizes
RECURSIVE BatchCount(_, _, _)
BatchCount(sizes, total, n) ==
    IF sizes = <<>> THEN (IF n > 0 THEN 1 ELSE 0)
    ELSE IF total + Head(sizes) > maxBatchSizeBytes /\ n > 0
         THEN 1 + BatchCount(Tail(sizes), Head(sizes), 1)
         ELSE BatchCount(Tail(sizes), total + Head(sizes), n + 1)

Ended == ipc \in {"done", "error"}

\* C3: insertIntoBq attempts every batch the batcher forms, also after an
\* earlier batch got a non-success status or row errors: when the run has
\* ended, the number of POSTs equals the number of batches formed from the
\* record stream.
C3_EveryBatchSent ==
    (Ended /\ WellFormedResponses)
        => Len(sent) = BatchCount(RecordSizes, 0, 0)

\* the records of the batches answered with a non-success status
RECURSIVE TransportFailed(_)
TransportFailed(j) ==
    IF j = 0 THEN 0
    ELSE (IF responses[j].ok THEN 0 ELSE Len(sent[j])) + TransportFailed(j - 1)

\* the rows the success responses list in insertErrors
RECURSIVE RowFailed(_)
RowFailed(j) ==
    IF j = 0 THEN 0
    ELSE (IF responses[j].ok THEN Len(responses[j].insertErrors) ELSE 0)
            + RowFailed(j - 1)

ParseFailures == Len(SelectSeq(emitted, LAMBDA item : ~IsRecord(item)))

AggregateFailed ==
    TransportFailed(Len(responses)) + RowFailed(Len(responses)) + ParseFailures

\* C4: a run ends with a terminal error if and only if the aggregate count
\* (records of transport-failed batches + rows in insertErrors + parse
\* failures) is greater than zero, and the error is raised only after the
\* decoder's sequence is exhausted.
C4_TerminalErrorIffAnyFailure ==
    (Ended /\ WellFormedResponses)
        => /\ (ipc = "error") <=> (AggregateFailed > 0)
           /\ ipc = "error" => dpc = "done"

\* C5: in a two-batch run where batch 1 succeeds fully and batch 2 gets a
\* non-success status, the run ends with a terminal error and with
\* succeeded = length of batch 1 and failed = length of batch 2.
C5_TransportFailureCounted ==
    (/\ Ended
     /\ Len(sent) = 2 /\ Len(responses) = 2
     /\ responses[1].ok /\ responses[1].insertErrors = <<>>
     /\ ~responses[2].ok)
        => /\ ipc = "error"
           /\ successfulInserts = Len(sent[1])
           /\ failedInserts = Len(sent[2])

\* C6: every item ndjsonStream emits for the k-th line of the input (1-based,
\* blank and all-whitespace lines counted) carries lineNumber = k, however the
\* input is cut into chunks, and the lineNumbers of successive items are
\* strictly increasing.
C6_LineNumbers ==
    /\ LET nonBlank == NonBlankLines
       IN  /\ Len(emitted) <= Len(nonBlank)
           /\ \A i \in 1..Len(emitted) : emitted[i].lineNumber = nonBlank[i]
    /\ \A i \in 1..(Len(emitted) - 1) :
          emitted[i].lineNumber < emitted[i + 1].lineNumber

\* an empty line, an all-whitespace line, then a line cut in two by the
\* reader: its item carries lineNumber 3
C6_Witness ==
    /\ dpc = "done" /\ cutInLine
    /\ SourceLines[1] = <<>> /\ SourceLines[2] = <<" ">>
    /\ Len(emitted) = 1 /\ emitted[1].lineNumber = 3

\* what the generator yields for the whole lines of the object
ExpectedItems ==
    LET ls == SourceLines
        nonBlank == NonBlankLines
    IN  [i \in 1..Len(nonBlank) |-> Item(ls[nonBlank[i]], nonBlank[i])]

\* C7: the items ndjsonStream emits depend only on the concatenated input, not
\* on the chunk boundaries: however the reader cuts the text (inside a line,
\* with empty chunks), the completed sequence is the one the whole lines give,
\* and a line split over two chunks yields exactly one item.
C7_ChunkIndependent ==
    LET expected == ExpectedItems
    IN  /\ dpc = "done" => emitted = expected
        /\ dpc # "done" => emitted = SubSeq(expected, 1, Len(emitted))

\* the line `11` delivered as `1`, an empty chunk and the rest: one Record, 11
C7_Witness ==
    /\ dpc = "done" /\ cutInLine /\ emptyChunk
    /\ Len(SourceLines[1]) = 2
    /\ Len(emitted) = 1 /\ IsRecord(emitted[1]) /\ emitted[1].json = 11

\* C8: a malformed line never ends the decoder's sequence: each non-blank line
\* yields exactly one item, in input order: a ParseFailure with the raw line
\* and its line number if the line is not valid JSON, a Record otherwise; at
\* the end of input every non-blank line has yielded its item.
C8_MalformedIsolated ==
    LET ls == SourceLines
        nonBlank == NonBlankLines
    IN  /\ Len(emitted) <= Len(nonBlank)
        /\ dpc = "done" => Len(emitted) = Len(nonBlank)
        /\ \A i \in 1..Len(emitted) :
              LET k == nonBlank[i]
              IN  IF JsonValid(ls[k])
                  THEN /\ IsRecord(emitted[i])
                       /\ emitted[i].json = JsonParse(ls[k])
                  ELSE /\ ~IsRecord(emitted[i])
                       /\ emitted[i].error
                       /\ emitted[i].line = ls[k]
                       /\ emitted[i].lineNumber = k

\* Record(line 1), ParseFailure(line 2), Record(line 3)
C8_Witness ==
    /\ Len(emitted) = 3
    /\ IsRecord(emitted[1]) /\ emitted[1].lineNumber = 1
    /\ ~IsRecord(emitted[2]) /\ emitted[2].lineNumber = 2
    /\ IsRecord(emitted[3]) /\ emitted[3].lineNumber = 3

\* the Records yielded so far, as the batcher keeps them
EmittedRecords ==
    LET rs == SelectSeq(emitted, IsRecord)
    IN  [i \in 1..Len(rs) |-> [json |-> rs[i].json, lineNumber |-> rs[i].lineNumber]]

Oversize(r) == StringifyLength(r.json) > maxBatchSizeBytes

\* the records accepted and not sent yet
Held ==
    (IF ipc = "pull" THEN batch ELSE <<>>)
        \o (IF ipc = "send"
            THEN <<[json |-> pending.json, lineNumber |-> pending.lineNumber]>>
            ELSE <<>>)

\* a POST was answered in a way that ended the run before its summary
Aborted == thrown \in {"BigQuery API error", "TypeError"}

\* C9: every batch insertIntoBq sends has a total serialized size not above
\* the threshold or consists of exactly one record; a record whose own size
\* exceeds the threshold is sent alone, whole, and the batcher never drops it
\* (in a run no response has aborted it is in a sent batch or still held).
C9_SoftCap ==
    /\ \A j \in 1..Len(sent) :
          /\ sent[j] # <<>>
          /\ BatchBytes(sent[j]) <= maxBatchSizeBytes \/ Len(sent[j]) = 1
          /\ \A p \in 1..Len(sent[j]) : Oversize(sent[j][p]) => Len(sent[j]) = 1
    /\ ~Aborted =>
          SelectSeq(EmittedRecords, Oversize) = SelectSeq(Flatten(sent) \o Held, Oversize)
    /\ ipc = "done" =>
          SelectSeq(EmittedRecords, Oversize) = SelectSeq(Flatten(sent), Oversize)

\* a record above the threshold arrives while a batch is accumulating: the
\* batch is sent, then the record alone, and the run completes
C9_Witness ==
    /\ ipc = "done"
    /\ Len(sent) = 2
    /\ Len(sent[2]) = 1 /\ Oversize(sent[2][1])
    /\ BatchBytes(sent[2]) > maxBatchSizeBytes

\* C10: batching is greedy: a batch is closed only when the next record would
\* push its total above the threshold, so the total of a batch plus the size
\* of the first record of the next one is greater than the threshold; a
\* record that brings the total to exactly the threshold stays in the batch.
C10_Greedy ==
    /\ \A j \in 1..(Len(sent) - 1) :
          BatchBytes(sent[j]) + StringifyLength(sent[j + 1][1].json) > maxBatchSizeBytes
    /\ (sent # <<>> /\ Held # <<>>) =>
          BatchBytes(sent[Len(sent)]) + StringifyLength(Held[1].json) > maxBatchSizeBytes
    /\ ipc = "pull" => batchSizeBytes = BatchBytes(batch)

\* three records of one size unit, threshold two: [rec1, rec2] then [rec3];
\* rec2 brought the total to exactly the threshold and stayed
C10_Witness ==
    /\ Len(sent) = 2
    /\ Len(sent[1]) = 2 /\ BatchBytes(sent[1]) = maxBatchSizeBytes
    /\ Len(sent[2]) = 1

\* the Records of the whole object, as the batcher keeps them
SourceRecords ==
    LET ls == SourceLines
        recordLines == RecordLines
    IN  [i \in 1..Len(recordLines) |->
            [json |-> JsonParse(ls[recordLines[i]]), lineNumber |-> recordLines[i]]]

\* C11: in a run no response has aborted, the concatenation of the batches
\* sent, in send order, followed by the records still held, is the sequence
\* of Records the decoder has emitted: each Record is in exactly one POST, no
\* ParseFailure is in a batch, the order is kept; no batch is empty and none
\* is sent twice (one response at most is outstanding); when such a run has
\* ended, the batches sent hold exactly the Records of the object.
C11_SentIsRecordSequence ==
    /\ \A j \in 1..Len(sent) : sent[j] # <<>>
    /\ Len(sent) - Len(responses) \in {0, 1}
    /\ LET records == EmittedRecords
           posted == Flatten(sent)
       IN  /\ posted = SubSeq(records, 1, Len(posted))
           /\ ~Aborted => posted \o Held = records
    /\ (Ended /\ dpc = "done" /\ ~Aborted) => Flatten(sent) = SourceRecords

\* three Records in two batches; a row of the first batch was rejected and
\* the batch was not sent again: the run ended after two POSTs
C11_Witness ==
    /\ Ended /\ dpc = "done" /\ ~Aborted
    /\ Len(sent) = 2 /\ Len(Flatten(sent)) = 3
    /\ responses[1].insertErrors # <<>>

\* the token endpoint has answered and the answer held no access_token
ExchangeFailed == exchanges > 0 /\ jwt # "access_token"

\* C12: if the credential exchange fails (the token endpoint answers with an
\* error or returns no access_token), the run is aborted at once with a
\* terminal error: nothing is decoded and no batch is ever sent.
C12_ExchangeFailureAborts ==
    ExchangeFailed
        => /\ ipc = "error" /\ thrown = "token exchange"
           /\ emitted = <<>>
           /\ sent = <<>>

\* the handler has left the loop: it returned or it rethrew
HandlerEnded == hpc \in {"thrown", "returned"}

\* the message whose object was asked of the bucket last
Current == gets[Len(gets)]

\* C13: if the object of a key is not found or has a null body, the run for
\* that key ends at once with a terminal error: no item is decoded, no
\* credential is requested and no batch is sent (and the message is not
\* acknowledged).
C13_MissingObjectEndsRun ==
    (gets # <<>> /\ messages[Current].object \in {NotFound, NullBody})
        => /\ hpc = "thrown"
           /\ thrown = (IF messages[Current].object = NotFound
                        THEN "Object not found" ELSE "Object body is null")
           /\ ipc = "idle"
           /\ emitted = <<>> /\ lineNumber = 0
           /\ exchanges = 0 /\ jwt = "none"
           /\ sent = <<>>
           /\ Current \notin acked

\* the second message's object has a null body, after a first message whose
\* run decoded a record, got a token and sent a batch
C13_Witness ==
    /\ gets = <<1, 2>>
    /\ messages[1].object = Stream(<<"1">>)
    /\ messages[2].object = NullBody
    /\ acked = {1}
    /\ thrown = "Object body is null"

\* the 1-based positions of a sequence's elements
Indexes(s) == {s[i] : i \in 1..Len(s)}

\* C14: in the queue handler a terminal failure of one message's run does not
\* prevent the runs of the following messages: when the handler has ended,
\* the run of every message whose key has not the temporary prefix was
\* attempted (its object was asked of the bucket).
C14_FollowingMessagesRun ==
    HandlerEnded
        => \A i \in 1..Len(messages) :
              ~StartsWithTemporary(messages[i].key) => i \in Indexes(gets)

\* C15: in the queue handler a message whose run ends in a terminal error is
\* never acknowledged and the failure is propagated out of the handler; a
\* message whose run completes without error is acknowledged; no run is
\* started twice for a message.
C15_AckOnlyOnSuccess ==
    /\ \A i \in acked : i \in Indexes(gets) /\ i < mi
    /\ ipc = "error" => (hpc = "thrown" /\ thrown # "none" /\ Current \notin acked)
    /\ hpc = "thrown" => (thrown # "none" /\ mi \notin acked)
    /\ ipc = "done" => Current \in acked
    /\ Cardinality(Indexes(gets)) = Len(gets)

\* the first message's run completed and was acknowledged; the second one's
\* ended with the error of a rejected POST and was not
C15_Witness ==
    /\ gets = <<1, 2>>
    /\ acked = {1}
    /\ ipc = "error" /\ thrown = "BigQuery API error"
    /\ hpc = "thrown"

\* the key has the prefix `__temporary`
HasTemporaryPrefix(key) == Len(key) >= 1 /\ key[1] = "__temporary"

\* C16: a message whose key has the prefix `__temporary` causes no activity:
\* its object is never asked of the bucket and it is never acknowledged, and
\* the step that meets it only moves the handler on to the next message
\* (nothing is decoded, no credential is requested, no batch is sent).
C16_TemporarySkipped ==
    /\ [](\A i \in 1..Len(messages) :
             HasTemporaryPrefix(messages[i].key)
                => (i \notin Indexes(gets) /\ i \notin acked))
    /\ [][(hpc = "loop" /\ mi <= Len(messages)
              /\ HasTemporaryPrefix(messages[mi].key))
             => (/\ mi' = mi + 1
                 /\ hpc' = "loop"
                 /\ UNCHANGED <<dvars, ivars, acked, gets>>)]_vars

\* a temporary key first, then an ordinary key whose run completed
C16_Witness ==
    /\ Len(messages) = 2
    /\ HasTemporaryPrefix(messages[1].key)
    /\ gets = <<2>>
    /\ acked = {2}
    /\ sent # <<>>

\* C17: the bearer credential is obtained exactly once per run, before the
\* first batch is sent, and the value obtained is in the Authorization header
\* of every batch: the number of exchanges is 1 whether the run sends no
\* batch, one or several.
C17_OneCredentialPerRun ==
    /\ exchanges \in {0, 1}
    /\ (ipc \notin {"idle", "start"}) => exchanges = 1
    /\ sent # <<>> => (exchanges = 1 /\ jwt # "none")
    /\ Len(auths) = Len(sent)
    /\ \A i \in 1..Len(auths) : auths[i] = <<"Bearer", jwt>>

\* a run of two batches that completed: one exchange, its token in both POSTs
C17_Witness ==
    /\ ipc = "done"
    /\ exchanges = 1
    /\ auths = <<<<"Bearer", "access_token">>, <<"Bearer", "access_token">>>>
    /\ Len(sent) = 2

\* the POSTs that have not been answered yet
InFlight == Len(sent) - Len(responses)

\* C18: batches are dispatched strictly one at a time, in order: never two
\* POSTs are in flight, a batch is sent only when every earlier one has been
\* answered, and while a batch is in flight the decoder does nothing (it is
\* not asked for a further chunk and visits no line).
C18_OneAtATime ==
    /\ [](/\ InFlight \in {0, 1}
          /\ InFlight = 1 <=> ipc \in {"send", "final"})
    /\ [][Len(sent') > Len(sent) => (InFlight = 0 /\ Len(sent') = Len(sent) + 1)]_vars
    /\ [][InFlight = 1 => UNCHANGED dvars]_vars

\* the first batch is in flight while the decoder is still inside its read
\* loop: its next reader.read() has to wait for the response
C18_Witness ==
    /\ ipc = "send"
    /\ Len(sent) = 1 /\ responses = <<>>
    /\ dpc = "read"

\* insertIntoBq is running
Running == ipc \in {"start", "pull", "send", "final"}

\* C19: whatever chunks the reader delivers and whatever the destination
\* answers, a run terminates with exactly one outcome: it completes normally
\* or it ends with one terminal error, never both (a completed run has thrown
\* nothing, a failed one carries its error, and a settled outcome does not
\* change) and never neither (a running run settles; the handler ends).
C19_TerminatesWithOneOutcome ==
    /\ [](/\ ipc = "done" => thrown = "none"
          /\ ipc = "error" => thrown # "none"
          /\ hpc = "run" <=> Running)
    /\ [][ipc = "error" => (ipc' = "error" /\ thrown' = thrown)]_vars
    /\ [][ipc = "done" => (ipc' = "done" \/ ~Ended')]_vars
    /\ Running ~> Ended
    /\ <>HandlerEnded

\* a run that got an empty chunk, sent two batches and completed normally
C19_Witness ==
    /\ ipc = "done" /\ thrown = "none"
    /\ emptyChunk
    /\ Len(sent) = 2 /\ Len(responses) = 2
    /\ hpc = "returned"

\* the text after the last line feed (the whole text if there is none)
Leftover == SourceLines[Len(SourceLines)]

\* the lines of the text that end with a line feed
Terminated == Len(SourceLines) - 1

\* C20: when the input has ended, a leftover after the last line feed that is
\* not blank has been emitted exactly once, as the last item, with lineNumber
\* = (number of terminated lines) + 1; an empty or all-whitespace leftover has
\* emitted nothing; before the end of input nothing is emitted for the
\* leftover; the empty input yields the empty sequence and no failure.
C20_LeftoverLine ==
    LET last == Leftover
        n == Terminated
    IN  /\ dpc # "done" => \A i \in 1..Len(emitted) : emitted[i].lineNumber <= n
        /\ (dpc = "done" /\ Trim(last) # <<>>) =>
              /\ emitted # <<>>
              /\ emitted[Len(emitted)] = Item(last, n + 1)
              /\ Cardinality({i \in 1..Len(emitted) : emitted[i].lineNumber > n}) = 1
        /\ (dpc = "done" /\ Trim(last) = <<>>) =>
              \A i \in 1..Len(emitted) : emitted[i].lineNumber <= n
        /\ text = <<>> =>
              (emitted = <<>> /\ skippedRecords = 0 /\ thrown = "none" /\ sent = <<>>)

\* a record, an empty line and an unterminated record cut by the reader: the
\* leftover is emitted last, as line 3
C20_Witness ==
    /\ dpc = "done" /\ cutInLine
    /\ Len(SourceLines) = 3 /\ SourceLines[2] = <<>>
    /\ Len(Leftover) = 2
    /\ Len(emitted) = 2
    /\ IsRecord(emitted[2]) /\ emitted[2].lineNumber = 3 /\ emitted[2].json = 11

\* C21: record accounting of insertIntoBq: whenever a record has been handled
\* and every POST made has been reconciled, successfulInserts + failedInserts
\* + (records in the accumulating batch) = totalRecords; while the POST a
\* record triggered is unanswered that record is the one counted and not yet
\* in the batch; totalRecords is the number of Records the decoder yielded;
\* so when the run has reached its summary, successfulInserts +
\* failedInserts = totalRecords.
C21_RecordAccounting ==
    /\ totalRecords = Len(EmittedRecords)
    /\ ipc \in {"idle", "start", "pull", "final"} =>
          successfulInserts + failedInserts + Len(batch) = totalRecords
    /\ ipc = "send" =>
          successfulInserts + failedInserts + Len(batch) + 1 = totalRecords
    /\ (Ended /\ thrown \in {"none", "Failed to insert"}) =>
          successfulInserts + failedInserts = totalRecords

\* three Records in two batches, one row rejected: 2 + 1 = 3 at the summary
C21_Witness ==
    /\ Ended /\ thrown = "Failed to insert"
    /\ Len(sent) = 2
    /\ totalRecords = 3 /\ successfulInserts = 2 /\ failedInserts = 1

\* C22: reconciling a success-status response never aborts the run: for any
\* insertErrors list of the body, an index outside the batch included,
\* handleBigQueryResponse returns counts (every success response has its
\* outcome) and no error leaves it.
C22_ReconcileNeverAborts ==
    /\ thrown # "TypeError"
    /\ \A j \in 1..Len(responses) : responses[j].ok => j <= Len(outcomes)

====
